---- MODULE Spec2Model ----
(***************************************************************************)
(* Model of flir2tif/terra_flir2tif.py: the FlirBin2JpgTiff extractor.     *)
(*                                                                         *)
(* One input dataset is followed through a sequence of messages.  Each     *)
(* message runs check_message (the decision phase) and, when that returns  *)
(* CheckMessage.download, process_message (the processing phase), whose    *)
(* collaborator calls and file writes are separate steps so that a run     *)
(* can abort between them.                                                 *)
(***************************************************************************)
EXTENDS Integers, Sequences, FiniteSets, TLC

\* ---------------------------------------------------------------- bounds
MaxRuns  == 2        \* messages delivered for the input
MaxFiles == 2        \* entries of resource['files']
MaxPaths == 3        \* entries of resource['local_paths']
MaxIds   == 2        \* distinct values of resource['id']

\* ------------------------------------------------------ program constants
HEIGHT     == 480    \* reshape([480, 640])
WIDTH      == 640
ELEM_BYTES == 2      \* numpy.dtype('<u2')

\* ------------------------------------------------------------ input sets
SeqsUpTo(S, n) == UNION {[1..k -> S] : k \in 0..n}
Range(s) == {s[i] : i \in DOMAIN s}

\* a file entry of resource['files']: its filename ends with '_ir.bin',
\* ends with something else, or the entry has no 'filename' key
FileKinds == {"ir", "other", "noname"}

\* an entry of resource['local_paths']: a '_dataset_metadata.json' file that
\* holds the flirIrCamera terraref metadata or does not, the '_ir.bin' file,
\* or the png_path or tiff_path itself (which, like any other file, match
\* neither suffix test of the loop)
PathKinds == {"md_ok", "md_noterra", "bin", "png", "tiff"}

\* host with and without the trailing "/"
Hosts == {<<"h">>, <<"h", "/">>}

\* sizes in bytes of the '_ir.bin' file on disk
ByteCounts == {ELEM_BYTES * HEIGHT * WIDTH,
               ELEM_BYTES * HEIGHT * WIDTH + 1,
               ELEM_BYTES * HEIGHT * WIDTH - ELEM_BYTES,
               ELEM_BYTES * HEIGHT * WIDTH + ELEM_BYTES}

\* values of resource['id']
Ids == 1..MaxIds

\* two invocations of process_message running at the same time
Invs == {"a", "b"}

VARIABLES
    overwrite,   \* self.overwrite of the extractor handling the message
    chk,         \* the check_message call: its inputs and its outcome
    pc,          \* position of the current message
    fs,          \* files on disk: png_path, tiff_path, out_tmp_tiff
    remote,      \* Clowder: derived dataset, uploads, metadata records
    run,         \* the process_message call: parameters and locals
    hist,        \* history of the messages handled so far
    staging      \* two concurrent invocations at their raster step

vars == <<overwrite, chk, pc, fs, remote, run, hist, staging>>

\* check_message returned ignore or raised; process_message returned or raised
Terminal == {"ignored", "raised", "done", "failed"}

\* os.path.exists(path)
exists(f) == f # "absent"

\* ------------------------------------------------------- check_message
\* self.log_skip as the calls of this file use it: the calls at lines 43,
\* 52 and 62 pass (resource, message); a call passing one argument does
\* not match that signature and raises TypeError.
log_skip(args) == IF Len(args) = 2 THEN "ok" ELSE "TypeError"

\* a skip branch: log_skip(...) then return CheckMessage.ignore
skip(args, fetched, rule) ==
    IF log_skip(args) = "ok"
    THEN [result |-> "ignore", fetched |-> fetched, logged |-> TRUE, rule |-> rule]
    ELSE [result |-> "TypeError", fetched |-> fetched, logged |-> FALSE, rule |-> rule]

\* lines 47-50: the filepath of the last entry whose filename ends with
\* '_ir.bin' (a file's filepath is its position, never empty); 0 is None
RECURSIVE found_ir_loop(_, _, _)
found_ir_loop(files, i, found) ==
    IF i > Len(files) THEN found
    ELSE found_ir_loop(files, i + 1, IF files[i] = "ir" THEN i ELSE found)

found_ir(files) == found_ir_loop(files, 1, 0)

\* line 56-61: the outputs-exist test
outputs_exist_inverted(ow, png, tiff) == ow /\ png /\ tiff

outputs_exist(ow, png, tiff) == ~ow /\ png /\ tiff

\* check_message with the metadata download hoisted above the output test
check_message_fetch_first(rulechecked, latest, files, ow, png, tiff, md) ==
    IF rulechecked THEN
        [result |-> "download", fetched |-> 0, logged |-> FALSE, rule |-> 1]
    ELSE IF ~latest THEN
        skip(<<"resource", "not latest file">>, 0, 2)
    ELSE IF found_ir(files) = 0 THEN
        skip(<<"resource", "IR bin file not found">>, 0, 3)
    ELSE IF outputs_exist(ow, png, tiff) THEN
        skip(<<"resource", "outputs found">>, 1, 4)
    ELSE IF md.extractor /\ ~ow THEN
        skip(<<"metadata indicates it was already processed">>, 1, 5)
    ELSE IF md.terra THEN
        [result |-> "download", fetched |-> 1, logged |-> FALSE, rule |-> 7]
    ELSE
        skip(<<"no terraref metadata found">>, 1, 6)

\* lines 38-74.  md is what download_metadata returns for resource['id']:
\* md.extractor is get_extractor_metadata(md, name), md.terra is
\* get_terraref_metadata(md).  fetched counts the download_metadata calls.
check_message(rulechecked, latest, files, ow, png, tiff, md) ==
    IF rulechecked THEN
        [result |-> "download", fetched |-> 0, logged |-> FALSE, rule |-> 1]
    ELSE IF ~latest THEN
        skip(<<"resource", "not latest file">>, 0, 2)
    ELSE IF found_ir(files) = 0 THEN
        skip(<<"resource", "IR bin file not found">>, 0, 3)
    ELSE IF outputs_exist(ow, png, tiff) THEN
        skip(<<"resource", "outputs found">>, 0, 4)
    ELSE IF md.extractor /\ ~ow THEN
        skip(<<"metadata indicates it was already processed">>, 1, 5)
    ELSE IF md.terra THEN
        [result |-> "download", fetched |-> 1, logged |-> FALSE, rule |-> 7]
    ELSE
        skip(<<"no terraref metadata found">>, 1, 6)

\* ------------------------------------------------------------- frames
\* raw: some entry of resource['files'] is named '..._ir.bin'
NoCheck ==
    [rulechecked |-> FALSE, latest |-> FALSE, raw |-> FALSE,
     terra |-> FALSE, png |-> FALSE, tiff |-> FALSE, extractor |-> FALSE,
     result |-> "none", fetched |-> 0, logged |-> FALSE, rule |-> 0]

\* rulechecked is parameters['rulechecked']; pngAtStart and tiffAtStart are
\* what the two paths held when the message arrived; wrote collects the
\* kinds of write the run has made; the rest are the locals of the call
NoRun ==
    [rulechecked |-> FALSE,
     bin_file |-> FALSE, metadata |-> FALSE,
     pngKnown |-> FALSE, tiffKnown |-> FALSE,
     skipped_png |-> FALSE, raw_data |-> FALSE, decodes |-> 0,
     converted |-> FALSE, uploaded_file_ids |-> <<>>,
     pngAtStart |-> "absent", tiffAtStart |-> "absent",
     pngDone |-> FALSE, tiffDone |-> FALSE,
     wrote |-> {}, records |-> 0, failedAt |-> "none",
     binBytes |-> 0, pngFileid |-> 0, tiffFileid |-> 0]

\* no file at a path
NoFile == [by |-> "none", state |-> "absent"]

\* a staging path shared by every invocation
out_tmp_tiff_shared(id) == <<"tmp", "out.tif">>

\* line 138: os.path.join(tempfile.gettempdir(), resource['id'])
out_tmp_tiff(id) == <<"tmp", id>>

StagingPaths == {out_tmp_tiff(i) : i \in Ids}

\* the concurrent invocations are not running
NoStaging ==
    [id       |-> [p \in Invs |-> 0],
     pc       |-> [p \in Invs |-> "off"],
     tmp      |-> [t \in StagingPaths |-> NoFile],
     final    |-> [p \in Invs |-> NoFile],
     uploaded |-> [p \in Invs |-> NoFile]]

Init ==
    /\ overwrite = FALSE
    /\ chk = NoCheck
    /\ pc = "idle"
    /\ fs = [png |-> "absent", tiff |-> "absent", tmp |-> "absent",
             dir |-> FALSE]
    /\ remote = [dataset |-> FALSE, lemna |-> FALSE, pngUp |-> 0, tiffUp |-> 0,
                 records |-> 0, derivedRecords |-> 0, files_created |-> <<>>]
    /\ run = NoRun
    /\ hist = [runs |-> 0, everOverwrite |-> FALSE, everRemoved |-> FALSE,
               everKnown |-> FALSE, prevCollabFail |-> FALSE]
    /\ staging = NoStaging

\* A message for the input arrives: check_message runs to its return (or to
\* the exception it raises).  When it returns download the files are
\* fetched and process_message is called (Download).  Messages are handled
\* one at a time.
Receive ==
    /\ pc = "idle"
    /\ hist.runs < MaxRuns
    /\ \E rc \in BOOLEAN, latest \in BOOLEAN, ow \in BOOLEAN, terra \in BOOLEAN,
          files \in SeqsUpTo(FileKinds, MaxFiles) :
        LET md  == [extractor |-> remote.records > 0, terra |-> terra]
            out == check_message(rc, latest, files, ow,
                                 exists(fs.png), exists(fs.tiff), md)
        IN  /\ overwrite' = ow
            /\ chk' = [rulechecked |-> rc, latest |-> latest,
                       raw |-> "ir" \in Range(files), terra |-> terra,
                       png |-> exists(fs.png), tiff |-> exists(fs.tiff),
                       extractor |-> md.extractor,
                       result |-> out.result, fetched |-> out.fetched,
                       logged |-> out.logged, rule |-> out.rule]
            /\ pc' = CASE out.result = "download" -> "checked"
                       [] out.result = "ignore"   -> "ignored"
                       [] OTHER                   -> "raised"
            /\ run' = IF out.result = "download"
                       THEN [NoRun EXCEPT !.rulechecked = rc,
                                          !.pngAtStart = fs.png,
                                          !.tiffAtStart = fs.tiff]
                       ELSE NoRun
            /\ hist' = [hist EXCEPT !.runs = @ + 1,
                                    !.everOverwrite = @ \/ ow]
    /\ UNCHANGED <<fs, remote, staging>>

\* ----------------------------------------------------- process_message
\* lines 80-88: the loop over resource['local_paths']; a later
\* '_dataset_metadata.json' entry replaces the metadata of an earlier one
RECURSIVE locate_loop(_, _, _)
locate_loop(lp, i, acc) ==
    IF i > Len(lp) THEN acc
    ELSE locate_loop(lp, i + 1,
            IF lp[i] \in {"md_ok", "md_noterra"}
            THEN [acc EXCEPT !.metadata = (lp[i] = "md_ok")]
            ELSE IF lp[i] = "bin" THEN [acc EXCEPT !.bin_file = TRUE]
            ELSE acc)

locate(lp) == locate_loop(lp, 1, [bin_file |-> FALSE, metadata |-> FALSE])

\* a decode that accepts only a file of exactly 2*480*640 bytes
decode_exact(bytes) ==
    IF bytes = ELEM_BYTES * HEIGHT * WIDTH
    THEN [ok |-> TRUE, shape |-> <<WIDTH, HEIGHT>>]
    ELSE [ok |-> FALSE, shape |-> <<>>]

\* lines 115-116 and 132-133: numpy.fromfile reads the whole 2-byte
\* elements of the file, reshape([480, 640]) raises unless there are
\* exactly 480*640 of them, rot90(.., 3) swaps the two dimensions
decode(bytes) ==
    LET elements == bytes \div ELEM_BYTES
    IN  IF elements = HEIGHT * WIDTH
        THEN [ok |-> TRUE, shape |-> <<WIDTH, HEIGHT>>]
        ELSE [ok |-> FALSE, shape |-> <<>>]

\* lines 112 and 128: "not os.path.exists(path) or self.overwrite"
needs_work_only_overwrite(path_exists, ow) == ow

needs_work_always(path_exists, ow) == TRUE

needs_work_inverted(path_exists, ow) == path_exists \/ ow

needs_work(path_exists, ow) == ~path_exists \/ ow

\* line 131: "if skipped_png"
raster_needs_decode_always(skipped_png) == TRUE

raster_needs_decode(skipped_png) == skipped_png

\* lines 120 and 141: "path not in resource['local_paths']"
should_upload_always(known) == TRUE

should_upload(known) == ~known

\* lines 122 and 143: host + ("" if host.endswith("/") else "/") + "files/" + fileid
file_url(host, fileid) ==
    host \o (IF host[Len(host)] = "/" THEN <<>> ELSE <<"/">>) \o <<"files/", fileid>>

\* the id upload_to_dataset returns: a fresh file id of the Clowder instance
next_fileid == remote.pngUp + remote.tiffUp + 1

\* the dataset the completion record is uploaded to (line 151: resource['id'])
record_target_derived == "derived"

record_target == "input"

\* line 89: "None in [bin_file, metadata]"
missing_input_both(loc) == ~loc.bin_file /\ ~loc.metadata

missing_input(loc) == ~loc.bin_file \/ ~loc.metadata

\* the steps that are calls to Clowder: build_dataset_hierarchy (99),
\* upload_metadata (109, 151), upload_to_dataset (121, 142)
CollaboratorSteps == {"hierarchy", "lemna", "upload", "finalize"}

\* an exception leaves process_message at the named step
Abort(step, r) ==
    /\ pc' = "failed"
    /\ run' = [r EXCEPT !.failedAt = step]

\* check_message returned CheckMessage.download: the check is over, the
\* files of the dataset are fetched to resource['local_paths'] and
\* process_message is called (line 77, start_message)
Download ==
    /\ pc = "checked"
    /\ pc' = "locate"
    /\ chk' = NoCheck
    /\ UNCHANGED <<overwrite, fs, remote, run, hist, staging>>

\* lines 79-97: find the bin file and the metadata, raise ValueError when
\* one is missing, else derive the two paths (create_sensor_path makes the
\* output directory)
Locate ==
    /\ pc = "locate"
    /\ \E lp \in SeqsUpTo(PathKinds, MaxPaths) :
        LET loc == locate(lp) IN
        IF missing_input(loc)
        THEN /\ Abort("locate", [run EXCEPT !.bin_file = loc.bin_file,
                                            !.metadata = loc.metadata])
             /\ fs' = fs
             /\ hist' = hist
        ELSE /\ run' = [run EXCEPT !.bin_file = loc.bin_file,
                                   !.metadata = loc.metadata,
                                   !.pngKnown = "png" \in Range(lp),
                                   !.tiffKnown = "tiff" \in Range(lp),
                                   !.wrote = IF fs.dir THEN @ ELSE @ \cup {"dir"}]
             /\ fs' = [fs EXCEPT !.dir = TRUE]
             /\ pc' = "hierarchy"
             /\ hist' = [hist EXCEPT !.everKnown =
                             @ \/ "png" \in Range(lp) \/ "tiff" \in Range(lp)]
    /\ UNCHANGED <<overwrite, chk, remote, staging>>

\* lines 99-102: build_dataset_hierarchy finds the derived dataset or
\* creates it
Hierarchy ==
    /\ pc = "hierarchy"
    /\ \/ /\ remote' = [remote EXCEPT !.dataset = TRUE]
          /\ run' = [run EXCEPT !.wrote = IF remote.dataset THEN @
                                          ELSE @ \cup {"dataset"}]
          /\ pc' = "lemna"
       \/ /\ Abort("hierarchy", run)
          /\ remote' = remote
    /\ UNCHANGED <<overwrite, chk, fs, hist, staging>>

\* lines 105-109: upload the LemnaTec metadata to target_dsid
Lemna ==
    /\ pc = "lemna"
    /\ \/ /\ remote' = [remote EXCEPT !.lemna = TRUE]
          /\ run' = [run EXCEPT !.wrote = @ \cup {"lemna"}]
          /\ pc' = "png"
       \/ /\ Abort("lemna", run)
          /\ remote' = remote
    /\ UNCHANGED <<overwrite, chk, fs, hist, staging>>

\* lines 111-117 and 125-126: the preview step up to create_image.  An
\* interrupted create_image leaves png_path as it was or half written.
PngStep ==
    /\ pc = "png"
    /\ IF needs_work(exists(fs.png), overwrite)
       THEN \E bytes \in ByteCounts :
              LET r == [run EXCEPT !.decodes = @ + 1, !.binBytes = bytes] IN
              IF ~decode(bytes).ok
              THEN /\ Abort("decode", r)
                   /\ fs' = fs
              ELSE \/ /\ fs' = [fs EXCEPT !.png = "complete"]
                      /\ run' = [r EXCEPT !.raw_data = TRUE,
                                          !.wrote = @ \cup {"png"}]
                      /\ pc' = "pngUpload"
                   \/ /\ Abort("render", [r EXCEPT !.raw_data = TRUE])
                      /\ fs' = fs
                   \/ /\ Abort("render", [r EXCEPT !.raw_data = TRUE,
                                                   !.wrote = @ \cup {"png"}])
                      /\ fs' = [fs EXCEPT !.png = "partial"]
       ELSE /\ run' = [run EXCEPT !.skipped_png = TRUE, !.pngDone = TRUE]
            /\ pc' = "tiff"
            /\ fs' = fs
    /\ UNCHANGED <<overwrite, chk, remote, hist, staging>>

\* PngUpload with the new preview removed again when its upload fails
PngUploadCleanup ==
    /\ pc = "pngUpload"
    /\ IF should_upload(run.pngKnown)
       THEN \/ /\ remote' = [remote EXCEPT !.pngUp = @ + 1]
               /\ \E host \in Hosts : run' = [run EXCEPT
                    !.uploaded_file_ids = Append(@, file_url(host, next_fileid)),
                    !.wrote = @ \cup {"pngUpload"}, !.pngDone = TRUE,
                    !.pngFileid = next_fileid]
               /\ pc' = "tiff"
               /\ fs' = fs
            \/ /\ Abort("upload", run)
               /\ remote' = remote
               /\ fs' = [fs EXCEPT !.png = "absent"]
       ELSE /\ run' = [run EXCEPT !.pngDone = TRUE]
            /\ pc' = "tiff"
            /\ remote' = remote
            /\ fs' = fs
    /\ UNCHANGED <<overwrite, chk, hist, staging>>

\* lines 119-124: upload the new preview unless its path is a local path
PngUpload ==
    /\ pc = "pngUpload"
    /\ IF should_upload(run.pngKnown)
       THEN \/ /\ remote' = [remote EXCEPT !.pngUp = @ + 1]
               /\ \E host \in Hosts : run' = [run EXCEPT
                    !.uploaded_file_ids = Append(@, file_url(host, next_fileid)),
                    !.wrote = @ \cup {"pngUpload"}, !.pngDone = TRUE,
                    !.pngFileid = next_fileid]
               /\ pc' = "tiff"
            \/ /\ Abort("upload", run)
               /\ remote' = remote
       ELSE /\ run' = [run EXCEPT !.pngDone = TRUE]
            /\ pc' = "tiff"
            /\ remote' = remote
    /\ UNCHANGED <<overwrite, chk, fs, hist, staging>>

\* lines 128-134: the raster step up to rawData_to_temperature; using
\* raw_data before it was assigned raises (UnboundLocalError)
TiffStep ==
    /\ pc = "tiff"
    /\ IF needs_work(exists(fs.tiff), overwrite)
       THEN IF raster_needs_decode(run.skipped_png)
            THEN \E bytes \in ByteCounts :
                   LET r == [run EXCEPT !.decodes = @ + 1, !.binBytes = bytes] IN
                   IF ~decode(bytes).ok
                   THEN Abort("decode", r)
                   ELSE /\ run' = [r EXCEPT !.raw_data = TRUE, !.converted = TRUE]
                        /\ pc' = "tiffWrite"
            ELSE IF run.raw_data
                 THEN /\ run' = [run EXCEPT !.converted = TRUE]
                      /\ pc' = "tiffWrite"
                 ELSE Abort("unbound", run)
       ELSE /\ run' = [run EXCEPT !.tiffDone = TRUE]
            /\ pc' = "finalize"
    /\ UNCHANGED <<overwrite, chk, fs, remote, hist, staging>>

\* lines 138-139: create_geotiff writes the raster to out_tmp_tiff; an
\* interrupted write leaves the staging file as it was or half written
TiffWrite ==
    /\ pc = "tiffWrite"
    /\ \/ /\ fs' = [fs EXCEPT !.tmp = "complete"]
          /\ run' = [run EXCEPT !.wrote = @ \cup {"tmp"}]
          /\ pc' = "tiffMove"
       \/ /\ Abort("raster", run)
          /\ fs' = fs
       \/ /\ Abort("raster", [run EXCEPT !.wrote = @ \cup {"tmp"}])
          /\ fs' = [fs EXCEPT !.tmp = "partial"]
    /\ UNCHANGED <<overwrite, chk, remote, hist, staging>>

\* line 140: shutil.move(out_tmp_tiff, tiff_path).  Within one filesystem it
\* is a rename; across filesystems it copies and then removes the source,
\* and an interrupted copy leaves tiff_path half written.
TiffMove ==
    /\ pc = "tiffMove"
    /\ \/ /\ fs' = [fs EXCEPT !.tiff = "complete", !.tmp = "absent"]
          /\ run' = [run EXCEPT !.wrote = @ \cup {"tiff"}]
          /\ pc' = "tiffUpload"
       \/ /\ Abort("move", run)
          /\ fs' = fs
       \/ /\ Abort("move", [run EXCEPT !.wrote = @ \cup {"tiff"}])
          /\ fs' = [fs EXCEPT !.tiff = "partial"]
    /\ UNCHANGED <<overwrite, chk, remote, hist, staging>>

\* lines 141-145: upload the new raster unless its path is a local path
TiffUpload ==
    /\ pc = "tiffUpload"
    /\ IF should_upload(run.tiffKnown)
       THEN \/ /\ remote' = [remote EXCEPT !.tiffUp = @ + 1]
               /\ \E host \in Hosts : run' = [run EXCEPT
                    !.uploaded_file_ids = Append(@, file_url(host, next_fileid)),
                    !.wrote = @ \cup {"tiffUpload"}, !.tiffDone = TRUE,
                    !.tiffFileid = next_fileid]
               /\ pc' = "finalize"
            \/ /\ Abort("upload", run)
               /\ remote' = remote
       ELSE /\ run' = [run EXCEPT !.tiffDone = TRUE]
            /\ pc' = "finalize"
            /\ remote' = remote
    /\ UNCHANGED <<overwrite, chk, fs, hist, staging>>

\* Finalize with the record skipped when no file was uploaded
FinalizeSkipEmpty ==
    /\ pc = "finalize"
    /\ IF run.uploaded_file_ids = <<>>
       THEN /\ pc' = "done"
            /\ UNCHANGED <<remote, run>>
       ELSE \/ /\ remote' = [remote EXCEPT !.records = @ + 1,
                                 !.files_created = run.uploaded_file_ids]
               /\ run' = [run EXCEPT !.records = @ + 1,
                                     !.wrote = @ \cup {"record"}]
               /\ pc' = "done"
            \/ /\ Abort("finalize", run)
               /\ remote' = remote
    /\ UNCHANGED <<overwrite, chk, fs, hist, staging>>

\* lines 147-153: upload the completion record {"files_created": ...} to
\* resource['id'], then end_message
Finalize ==
    /\ pc = "finalize"
    /\ \/ /\ remote' = IF record_target = "input"
                       THEN [remote EXCEPT !.records = @ + 1,
                                 !.files_created = run.uploaded_file_ids]
                       ELSE [remote EXCEPT !.derivedRecords = @ + 1]
          /\ run' = [run EXCEPT !.records = @ + 1,
                                !.wrote = @ \cup {"record"}]
          /\ pc' = "done"
       \/ /\ Abort("finalize", run)
          /\ remote' = remote
    /\ UNCHANGED <<overwrite, chk, fs, hist, staging>>

\* check_message or process_message has returned or raised: the call is
\* over and the extractor waits for the next message
Ack ==
    /\ pc \in Terminal
    /\ pc' = "idle"
    /\ chk' = NoCheck
    /\ run' = NoRun
    /\ hist' = [hist EXCEPT !.prevCollabFail =
                    IF pc \in {"done", "failed"}
                    THEN pc = "failed" /\ run.failedAt \in CollaboratorSteps
                    ELSE @]
    /\ UNCHANGED <<overwrite, fs, remote, staging>>

\* Between two messages the output files are removed from disk by something
\* other than the extractor (the case os.path.exists is there to detect).
RemoveOutputs ==
    /\ pc = "idle"
    /\ exists(fs.png) \/ exists(fs.tiff)
    /\ \E rp \in BOOLEAN, rt \in BOOLEAN :
        /\ rp \/ rt
        /\ fs' = [fs EXCEPT !.png = IF rp THEN "absent" ELSE @,
                            !.tiff = IF rt THEN "absent" ELSE @]
    /\ hist' = [hist EXCEPT !.everRemoved = TRUE]
    /\ UNCHANGED <<overwrite, chk, pc, remote, run, staging>>

\* ------------------------------------------- two invocations, lines 137-145
\* Each invocation handles its own input (its own resource['id'] and its
\* own tiff_path); both stage their raster under tempfile.gettempdir().
InitStaging ==
    /\ overwrite = FALSE
    /\ chk = NoCheck
    /\ pc = "idle"
    /\ fs = [png |-> "absent", tiff |-> "absent", tmp |-> "absent", dir |-> FALSE]
    /\ remote = [dataset |-> FALSE, lemna |-> FALSE, pngUp |-> 0, tiffUp |-> 0,
                 records |-> 0, derivedRecords |-> 0, files_created |-> <<>>]
    /\ run = NoRun
    /\ hist = [runs |-> 0, everOverwrite |-> FALSE, everRemoved |-> FALSE,
               everKnown |-> FALSE, prevCollabFail |-> FALSE]
    /\ \E ids \in [Invs -> Ids] :
          staging = [NoStaging EXCEPT !.id = ids,
                                      !.pc = [p \in Invs |-> "raster"]]

\* the invocations of this part leave the single-input state alone
SingleInputUnchanged == UNCHANGED <<overwrite, chk, pc, fs, remote, run, hist>>

\* line 139: create_geotiff opens out_tmp_tiff and starts to write
StageBegin(p) ==
    /\ SingleInputUnchanged
    /\ staging.pc[p] = "raster"
    /\ staging' = [staging EXCEPT
          !.tmp[out_tmp_tiff(staging.id[p])] = [by |-> p, state |-> "partial"],
          !.pc[p] = "writing"]

\* line 139: create_geotiff returns, the raster is written (to the file it
\* opened: nothing is at the path when the file was moved away meanwhile)
StageFinish(p) ==
    /\ SingleInputUnchanged
    /\ staging.pc[p] = "writing"
    /\ staging' = [staging EXCEPT
          !.tmp[out_tmp_tiff(staging.id[p])] =
              IF @.state = "absent" THEN @ ELSE [by |-> p, state |-> "complete"],
          !.pc[p] = "move"]

\* the invocation is stopped while create_geotiff writes
StageAbort(p) ==
    /\ SingleInputUnchanged
    /\ staging.pc[p] = "writing"
    /\ staging' = [staging EXCEPT !.pc[p] = "failed"]

\* line 140: shutil.move(out_tmp_tiff, tiff_path) moves whatever file is at
\* the staging path and raises when there is none
StageMove(p) ==
    /\ SingleInputUnchanged
    /\ staging.pc[p] = "move"
    /\ LET t == out_tmp_tiff(staging.id[p]) IN
       IF staging.tmp[t].state = "absent"
       THEN staging' = [staging EXCEPT !.pc[p] = "failed"]
       ELSE staging' = [staging EXCEPT !.final[p] = staging.tmp[t],
                                       !.tmp[t] = NoFile,
                                       !.pc[p] = "upload"]

\* line 142: upload_to_dataset(.., tiff_path) publishes the file at tiff_path
StageUpload(p) ==
    /\ SingleInputUnchanged
    /\ staging.pc[p] = "upload"
    /\ staging' = [staging EXCEPT !.uploaded[p] = staging.final[p],
                                   !.pc[p] = "done"]

NextStaging ==
    \E p \in Invs :
        \/ StageBegin(p)
        \/ StageFinish(p)
        \/ StageAbort(p)
        \/ StageMove(p)
        \/ StageUpload(p)

SpecStaging == InitStaging /\ [][NextStaging]_vars

Next ==
    \/ Receive
    \/ Download
    \/ Locate
    \/ Hierarchy
    \/ Lemna
    \/ PngStep
    \/ PngUpload
    \/ TiffStep
    \/ TiffWrite
    \/ TiffMove
    \/ TiffUpload
    \/ Finalize
    \/ Ack
    \/ RemoveOutputs

Spec == Init /\ [][Next]_vars

\* ================================================================ claims
InProcess == pc \notin {"idle", "checked", "ignored", "raised"}
Checked   == chk.result # "none"
BothAtStart == exists(run.pngAtStart) /\ exists(run.tiffAtStart)

\* the 7-rule decision table as the specification states it
DecisionTable(bypass, latest, raw, ow, png, tiff, stored, calib) ==
    IF bypass THEN "download"
    ELSE IF ~latest THEN "ignore"
    ELSE IF ~raw THEN "ignore"
    ELSE IF ~ow /\ png /\ tiff THEN "ignore"
    ELSE IF ~ow /\ stored THEN "ignore"
    ELSE IF ~calib THEN "ignore"
    ELSE "download"

\* C1: for every combination of the eight inputs check_message returns what
\* the 7-rule decision table (first match wins) gives: download for
\* "proceed", ignore for every skip.
C1_DecisionTable ==
    Checked =>
        chk.result = DecisionTable(chk.rulechecked, chk.latest, chk.raw, overwrite,
                                   chk.png, chk.tiff, chk.extractor, chk.terra)

\* C2 (as stated): whenever both output paths exist when the message arrives
\* and overwrite is false, the invocation writes nothing.
C2_ZeroWrites ==
    (InProcess /\ BothAtStart /\ ~overwrite) => run.wrote = {}

\* C2 (amended): when both output paths exist, overwrite is false and the
\* bypass flag is not set, the check returns ignore, process_message is not
\* entered and the step changes neither the disk nor Clowder.
C2_ZeroWritesNoBypass ==
    [][ (hist'.runs # hist.runs /\ chk'.png /\ chk'.tiff
            /\ ~overwrite' /\ ~chk'.rulechecked)
        => (pc' = "ignored" /\ run' = NoRun /\ fs' = fs /\ remote' = remote) ]_vars

C2_Witness ==
    /\ pc = "ignored" /\ chk.png /\ chk.tiff /\ ~overwrite /\ ~chk.rulechecked
    /\ chk.latest /\ chk.raw

\* C3: once a completion record is stored against the input, every later
\* check with overwrite false and no bypass returns ignore.
C3_NeverAgain ==
    (Checked /\ chk.extractor /\ ~overwrite /\ ~chk.rulechecked)
        => chk.result = "ignore"

\* C4: over non-overwrite runs of one input (nothing else removing the
\* outputs) no step of a run writes a final path that already holds a file,
\* each artifact is uploaded at most once, and a run that ends successfully
\* leaves a file at each of the two paths.
C4_NoDuplicates ==
    [][ /\ (InProcess /\ ~overwrite /\ exists(fs.png)) =>
              (run'.wrote \ run.wrote) \cap {"png"} = {}
        /\ (InProcess /\ ~overwrite /\ exists(fs.tiff)) =>
              (run'.wrote \ run.wrote) \cap {"tiff"} = {}
        /\ (~hist'.everOverwrite /\ ~hist'.everRemoved) =>
              /\ remote'.pngUp <= 1 /\ remote'.tiffUp <= 1
              /\ pc' = "done" => (exists(fs'.png) /\ exists(fs'.tiff)) ]_vars

\* a second run that finishes what an interrupted first run left half done
C4_Witness ==
    /\ pc = "done" /\ hist.runs = 2 /\ ~hist.everOverwrite /\ ~hist.everRemoved
    /\ run.skipped_png /\ "tiff" \in run.wrote

\* C5: a non-overwrite run that starts with the preview present and the
\* georaster absent never writes or uploads the preview, and when it ends
\* successfully it has produced the georaster from one decode.
C5_PreviewUntouched ==
    (InProcess /\ exists(run.pngAtStart) /\ ~exists(run.tiffAtStart) /\ ~overwrite) =>
        /\ fs.png = run.pngAtStart
        /\ "png" \notin run.wrote /\ "pngUpload" \notin run.wrote
        /\ run.decodes <= 1
        /\ pc = "done" => /\ fs.tiff = "complete" /\ "tiff" \in run.wrote
                          /\ run.skipped_png /\ run.decodes = 1

C5_Witness ==
    /\ pc = "done" /\ exists(run.pngAtStart) /\ ~exists(run.tiffAtStart)
    /\ ~overwrite /\ fs.tiff = "complete"

\* C6 (as stated): every processing run decodes the raw frame exactly once.
C6_ExactlyOneDecode ==
    pc = "done" => run.decodes = 1

\* C6 (amended): a processing run decodes the raw frame at most once; a run
\* that ends successfully has decoded it once when at least one of the two
\* artifacts was produced and not at all when both steps were skipped; the
\* raster step only converts a frame decoded in this run.
C6_AtMostOneDecode ==
    /\ run.decodes <= 1
    /\ pc = "done" =>
          run.decodes = (IF "png" \in run.wrote \/ "tiff" \in run.wrote THEN 1 ELSE 0)
    /\ run.converted => (run.raw_data /\ run.decodes = 1)

\* both artifacts produced in one run from the shared decode
C6_Witness ==
    /\ pc = "done" /\ "png" \in run.wrote /\ "tiff" \in run.wrote
    /\ ~run.skipped_png /\ run.decodes = 1

\* C7: the completion record is written once per successful run, against
\* the input, only after both artifact steps are done; a run that fails
\* writes none.
C7_RecordOnce ==
    /\ run.records <= 1
    /\ remote.derivedRecords = 0
    /\ pc = "done" => (run.records = 1 /\ remote.records >= 1)
    /\ run.records = 1 => (pc = "done" /\ run.pngDone /\ run.tiffDone)
    /\ pc = "failed" => (run.records = 0 /\ "record" \notin run.wrote)

C7_Witness ==
    pc = "done" /\ run.records = 1 /\ run.pngDone /\ run.tiffDone

\* C8: a run at the end of both artifact steps makes the completion write:
\* its next step stores a record listing uploaded_file_ids (the empty list
\* when both artifacts existed and overwrite is false), unless that upload
\* call itself raises.
C8_AlwaysFinalizes ==
    [][ pc = "finalize" =>
          \/ /\ pc' = "done"
             /\ remote'.records = remote.records + 1
             /\ remote'.files_created = run.uploaded_file_ids
             /\ (BothAtStart /\ ~overwrite) => remote'.files_created = <<>>
          \/ /\ pc' = "failed" /\ run'.failedAt = "finalize"
             /\ remote' = remote ]_vars

C8_Witness ==
    /\ pc = "done" /\ BothAtStart /\ ~overwrite
    /\ run.records = 1 /\ remote.files_created = <<>>

\* C9: every outcome of the check other than proceed returns ignore after
\* logging the skip, and raises nothing.
C9_CleanSkip ==
    (Checked /\ DecisionTable(chk.rulechecked, chk.latest, chk.raw, overwrite,
                 chk.png, chk.tiff, chk.extractor, chk.terra) = "ignore")
        => (chk.result = "ignore" /\ chk.logged /\ pc = "ignored")

\* C10: a check that ends by the bypass or by the skips stale, missing
\* input or outputs present has made no metadata fetch.
C10_FetchLast ==
    (Checked /\ (\/ chk.rulechecked \/ ~chk.latest \/ ~chk.raw
                 \/ (~overwrite /\ chk.png /\ chk.tiff)))
        => chk.fetched = 0

C10_Witness ==
    /\ Checked /\ ~chk.rulechecked /\ chk.latest /\ chk.raw
    /\ ~overwrite /\ chk.png /\ chk.tiff /\ chk.fetched = 0

\* C11: when the '_ir.bin' file or the sensor metadata is not among the local
\* paths, process_message raises at once: the step changes neither the disk
\* nor Clowder, and the run has made no write of any kind.
C11_AbortBeforeOutput ==
    [][ (pc = "locate" /\ (~run'.bin_file \/ ~run'.metadata)) =>
            /\ pc' = "failed" /\ run'.failedAt = "locate"
            /\ fs' = fs /\ remote' = remote
            /\ run'.wrote = {} /\ run'.records = 0
            /\ run'.uploaded_file_ids = <<>> ]_vars

\* the bin file is there, the metadata is not
C11_Witness ==
    /\ pc = "failed" /\ run.failedAt = "locate"
    /\ run.bin_file /\ ~run.metadata /\ run.wrote = {}

\* C12 as stated: the decode succeeds exactly when the file holds
\* 2*480*640 bytes.
C12_ExactByteCount ==
    run.binBytes # 0 =>
        (run.raw_data <=> run.binBytes = ELEM_BYTES * HEIGHT * WIDTH)

\* C12 amended: the decode succeeds exactly when the file holds 480*640
\* whole 2-byte elements, that is 2*480*640 bytes or one trailing byte more
\* (which is not read); with any other size the run fails at the decode
\* and writes no preview and no raster.
C12_WholeElements ==
    run.binBytes # 0 =>
        /\ run.raw_data <=>
               run.binBytes \in {ELEM_BYTES * HEIGHT * WIDTH,
                                 ELEM_BYTES * HEIGHT * WIDTH + 1}
        /\ ~run.raw_data =>
               /\ pc = "failed" /\ run.failedAt = "decode"
               /\ run.wrote \cap {"png", "tmp", "tiff"} = {}

\* a file with one trailing byte was decoded and the preview written from it
C12_Witness ==
    /\ run.binBytes = ELEM_BYTES * HEIGHT * WIDTH + 1
    /\ run.raw_data /\ "png" \in run.wrote /\ fs.png = "complete"

\* C13: a failing call to Clowder leaves the disk as it was, so the
\* artifacts written before it are still at their final paths; and the run
\* that follows such a failure, when it does not overwrite, leaves every
\* artifact it found at its final path as it found it and writes none of
\* them again.
C13_ResumeAfterFailure ==
    [][ /\ (pc' = "failed" /\ pc # "failed"
            /\ run'.failedAt \in CollaboratorSteps) => fs' = fs
        /\ (hist'.prevCollabFail /\ ~overwrite' /\ pc' \in {"done", "failed"}) =>
            /\ exists(run'.pngAtStart) =>
                   (fs'.png = run'.pngAtStart /\ "png" \notin run'.wrote)
            /\ exists(run'.tiffAtStart) =>
                   (fs'.tiff = run'.tiffAtStart /\ "tiff" \notin run'.wrote) ]_vars

\* the run before failed at a call to Clowder after the preview was
\* written; this run found the preview, skipped it and made the raster
C13_Witness ==
    /\ hist.prevCollabFail /\ ~overwrite /\ ~hist.everRemoved
    /\ pc = "done" /\ run.pngAtStart = "complete" /\ run.tiffAtStart = "absent"
    /\ run.skipped_png /\ "png" \notin run.wrote /\ "tiff" \in run.wrote

\* C14: the artifact list of the completion record holds exactly one URL
\* host/files/id for each artifact this run wrote whose final path was not
\* a local path of the input, the preview's before the raster's; an artifact
\* that was skipped or whose path was a local path was not uploaded and has
\* no entry.
C14_ArtifactList ==
    pc = "done" =>
        LET pngListed  == "png" \in run.wrote /\ ~run.pngKnown
            tiffListed == "tiff" \in run.wrote /\ ~run.tiffKnown
        IN  /\ remote.files_created =
                   (IF pngListed THEN << <<"h", "/", "files/", run.pngFileid>> >>
                                 ELSE <<>>)
                \o (IF tiffListed THEN << <<"h", "/", "files/", run.tiffFileid>> >>
                                  ELSE <<>>)
            /\ pngListed <=> "pngUpload" \in run.wrote
            /\ tiffListed <=> "tiffUpload" \in run.wrote
            /\ pngListed <=> run.pngFileid # 0
            /\ tiffListed <=> run.tiffFileid # 0
            /\ (pngListed /\ tiffListed) => run.pngFileid # run.tiffFileid

\* the preview was written but its path was a local path: the record lists
\* the raster alone
C14_Witness ==
    /\ pc = "done" /\ run.pngKnown /\ ~run.tiffKnown
    /\ {"png", "tiff"} \subseteq run.wrote
    /\ Len(remote.files_created) = 1

\* C15: when the two invocations handle inputs with different ids their
\* staging paths differ, and in every interleaving the file at an
\* invocation's staging path, the file it moved to its final path and the
\* file it uploaded were written by that invocation; the file it moves
\* and uploads is its own complete raster.
C15_StagingIsolated ==
    \A p \in Invs, q \in Invs :
        (p # q /\ staging.pc[p] # "off" /\ staging.id[p] # staging.id[q]) =>
            /\ out_tmp_tiff(staging.id[p]) # out_tmp_tiff(staging.id[q])
            /\ staging.tmp[out_tmp_tiff(staging.id[p])].by \in {"none", p}
            /\ staging.pc[p] = "move" =>
                   staging.tmp[out_tmp_tiff(staging.id[p])] =
                       [by |-> p, state |-> "complete"]
            /\ staging.pc[p] \in {"upload", "done"} =>
                   staging.final[p] = [by |-> p, state |-> "complete"]
            /\ staging.pc[p] = "done" =>
                   staging.uploaded[p] = [by |-> p, state |-> "complete"]
            /\ staging.pc[p] = "failed" => staging.final[p] = NoFile

\* both rasters are staged at once, one finished and one being written,
\* and a has relocated nothing yet
C15_Witness ==
    /\ staging.id["a"] # staging.id["b"]
    /\ staging.pc["a"] = "move" /\ staging.pc["b"] = "writing"
    /\ staging.tmp[out_tmp_tiff(staging.id["a"])].state = "complete"
    /\ staging.tmp[out_tmp_tiff(staging.id["b"])].state = "partial"

\* C16: the final raster path never holds a half-written file, whatever
\* step a run was stopped at.
C16_FinalRasterNeverPartial == fs.tiff # "partial"

\* C17: the step that writes a completion record finds both the preview
\* and the raster at their final paths, and while nothing but the
\* extractor removes files a record exists only with both of them on disk.
C17_RecordNeedsBoth ==
    [][ /\ remote'.records > remote.records =>
               (exists(fs'.png) /\ exists(fs'.tiff))
        /\ (remote'.records > 0 /\ ~hist'.everRemoved) =>
               (exists(fs'.png) /\ exists(fs'.tiff)) ]_vars

\* one run wrote the preview, the raster and then the record
C17_Witness ==
    /\ pc = "done" /\ remote.records = 1
    /\ {"png", "tiff", "record"} \subseteq run.wrote
    /\ exists(fs.png) /\ exists(fs.tiff)

\* C18: when a run ends successfully after nothing but non-overwrite runs
\* (no file removed, no output path ever among the local paths), each
\* complete artifact at its final path has been uploaded to the derived
\* dataset.
C18_AllUploaded ==
    (pc = "done" /\ ~hist.everOverwrite /\ ~hist.everRemoved /\ ~hist.everKnown) =>
        /\ fs.png = "complete" => remote.pngUp >= 1
        /\ fs.tiff = "complete" => remote.tiffUp >= 1

\* C19: a non-overwrite run that skipped the preview step has a completely
\* rendered preview at the preview path.
C19_SkippedPreviewComplete ==
    (run.skipped_png /\ ~overwrite) => fs.png = "complete"
====
